---- MODULE Spec2Model ----
(***************************************************************************)
(* A model of src/src/index.ts (openIndexedDB): the promise bridge of one  *)
(* useStore operation (iDBPromise), the transaction coordinator            *)
(* (transaction) and the upgrade handler (onupgradeneeded), each together  *)
(* with the part of the IndexedDB engine its handlers are driven by.       *)
(*                                                                         *)
(* JavaScript runs handlers to completion; an `await` is the only place    *)
(* where a handler is suspended.  An action of this module is therefore    *)
(* one engine event together with the whole handler run it triggers, up to *)
(* the next await whose promise is a callback's (a caller-supplied async   *)
(* function, which may take arbitrarily long, or fail).  Awaiting the      *)
(* `undefined` produced by an absent callback resumes in a microtask, i.e. *)
(* before any other engine event or timer: it does not split an action.    *)
(***************************************************************************)
EXTENDS Integers, Sequences, FiniteSets, TLC

\* ------------------------------------------------------------------------
\* Bounds and program constants
\* ------------------------------------------------------------------------

\* config.transactionTimeout ?? 5000
DefaultTimeout == 5000

\* the timeouts a configuration may carry (the tests use 1 and 10)
TimeoutValues == {1, DefaultTimeout}

\* names of the object stores a configuration or a database may hold
StoreNames == {1, 2}

VARIABLES
    \* ---- configuration shared by the operations of one instance
    events,             \* which callbacks config.events supplies
    transactionTimeout, \* config.transactionTimeout after defaulting
    calls,              \* the callback invocations so far, in order
    \* ---- one useStore operation (iDBPromise)
    opStoreName,        \* the storeName useStore was called with
    opRequest,          \* the engine's request: pending, success or error
    opFinished,         \* `finished` of iDBPromise
    opTimeout,          \* the setTimeout handle: armed, cleared or fired
    opPromise,          \* the promise iDBPromise returned
    opPc,               \* where the two async handlers of iDBPromise stand
    \* ---- one transaction() of the coordinator, and its engine transaction
    txStoreNames,       \* the storeNames argument
    callerPrevents,     \* the caller's request.onerror calls preventDefault()
    durable,            \* the committed records of stores[txStoreNames[1]]
    durable0,           \* the committed records when transaction() was called
    txState,            \* engine: active, committing, committed or aborted
    txError,            \* transaction.error
    txIssued,           \* the requests issued on the store handle, in order
    txNext,             \* index of the next request the engine executes
    txWork,             \* the records as the transaction sees them
    txAbortEvent,       \* the engine's abort event: none, queued or fired
    txRefused,          \* a call on the store handle threw (not active)
    txFinished,         \* `finished` of transaction()
    txTimeout,          \* the setTimeout handle: armed, cleared or fired
    done,               \* the `done` promise
    txPc,               \* where the async handlers of transaction() stand
    \* ---- one open attempt that goes through an upgrade
    cfgStores,          \* config.stores
    cfgMigrations,      \* config.migrations: an array or not, and its versions
    oldVersion,         \* event.oldVersion
    newVersion,         \* event.newVersion
    disk,               \* the committed structure and version of the database
    disk0,              \* the same when the open attempt started
    db,                 \* the structure as the upgrade transaction sees it
    upTx,               \* the upgrade transaction: active, committed, aborted
    upPc,               \* where the onupgradeneeded handler stands
    migIdx,             \* index of the migration being awaited
    upTrace,            \* what the handler and the migrations did, in order
    openPromise,        \* the promise openIndexedDB returned
    opened,             \* indexedDBRequest.onsuccess ran: the connection is held
    openError,          \* where indexedDBRequest.onerror stands, and its error
    \* ---- the connection of an opened instance: the instance the calls are
    \* ---- made on, or the earlier one while a newer open attempt is under way
    holder,             \* its connection, its onVersionChange, its handler
    blocked,            \* where indexedDBRequest.onblocked stands, and its error
    \* ---- the records of the opened database and the calls made on an instance
    records,            \* the committed records of every store
    uncommitted,        \* the writes of a transaction that is about to commit
    call,               \* the useStore operation in flight or just settled
    clearing,           \* where clearDatabase stands
    clearPromise,       \* the promise clearDatabase returned
    cursor,             \* the cursor request of openCursor / openKeyCursor
    cursorPromise       \* the promise iDBCursorPromise returned

opVars == <<opStoreName, opRequest, opFinished, opTimeout, opPromise, opPc>>
cfgVars == <<events, transactionTimeout, calls>>
txVars == <<txStoreNames, callerPrevents, durable, durable0, txState, txError,
            txIssued, txNext, txWork, txAbortEvent, txRefused, txFinished,
            txTimeout, done, txPc>>
upVars == <<cfgStores, cfgMigrations, oldVersion, newVersion, disk, disk0, db, upTx,
            upPc, migIdx, upTrace, openPromise, opened, openError>>
connVars == <<holder, blocked>>
storeVars == <<records, uncommitted, call, clearing, clearPromise, cursor, cursorPromise>>
vars == <<events, transactionTimeout, calls, opVars, txVars, upVars, connVars, storeVars>>

\* ------------------------------------------------------------------------
\* Promises
\* ------------------------------------------------------------------------

PendingPromise == [state |-> "pending", value |-> "none"]

\* resolve(v) of a promise: the first settlement wins, later ones are no-ops
Resolve(p, v) ==
    IF p.state = "pending" THEN [state |-> "fulfilled", value |-> v] ELSE p

\* reject(e) of a promise: the first settlement wins, later ones are no-ops
Reject(p, e) ==
    IF p.state = "pending" THEN [state |-> "rejected", value |-> e] ELSE p

\* a clearTimeout that leaves the timer armed
ClearTimeoutMissing(t) == t

\* clearTimeout(t): cancels a timer that has not fired yet
ClearTimeout(t) == IF t = "armed" THEN "cleared" ELSE t

\* ------------------------------------------------------------------------
\* useStore: iDBPromise (index.ts 284-307)
\* ------------------------------------------------------------------------

RequestResults == {"r1", "r2"}
RequestErrors == {"ConstraintError", "DataError"}

OpInit ==
    /\ events \in [onError : BOOLEAN, onTransactionTimeout : BOOLEAN]
    /\ transactionTimeout \in TimeoutValues
    /\ calls = <<>>
    /\ opStoreName \in StoreNames
    /\ opRequest = [state |-> "pending", value |-> "none"]
    /\ opFinished = FALSE
    /\ opTimeout = "armed"
    /\ opPromise = PendingPromise
    /\ opPc = [timer |-> "idle", onerror |-> "idle"]

\* The guard of the timer callback of iDBPromise: if (!finished)
OpTimerGuard == ~opFinished

\* a timer callback that cancels the request it gives up waiting for
OpTimerFiresAborting ==
    /\ opTimeout = "armed"
    /\ opTimeout' = "fired"
    /\ opRequest' = [state |-> "error", value |-> "AbortError"]
    /\ opPromise' = Reject(opPromise, "Transaction timeout")
    /\ opPc' = [opPc EXCEPT !.timer = "done"]
    /\ UNCHANGED <<txVars, upVars, connVars, storeVars, cfgVars, opStoreName, opFinished>>

\* The setTimeout callback of iDBPromise up to its await.
OpTimerFires ==
    /\ opTimeout = "armed"
    /\ opTimeout' = "fired"
    /\ IF OpTimerGuard
       THEN IF events.onTransactionTimeout
            THEN /\ calls' = Append(calls,
                       [cb |-> "onTransactionTimeout",
                        storeNames |-> <<opStoreName>>,
                        timeout |-> transactionTimeout])
                 /\ opPc' = [opPc EXCEPT !.timer = "await"]
                 /\ UNCHANGED opPromise
            ELSE /\ opPromise' = Reject(opPromise, "Transaction timeout")
                 /\ opPc' = [opPc EXCEPT !.timer = "done"]
                 /\ UNCHANGED calls
       ELSE /\ opPc' = [opPc EXCEPT !.timer = "skipped"]
            /\ UNCHANGED <<calls, opPromise>>
    /\ UNCHANGED <<txVars, upVars, connVars, storeVars, events, transactionTimeout, opStoreName, opRequest, opFinished>>

\* onTransactionTimeout's promise fulfils: reject(new Error("Transaction timeout"))
OpTimeoutCallbackReturns ==
    /\ opPc.timer = "await"
    /\ opPc' = [opPc EXCEPT !.timer = "done"]
    /\ opPromise' = Reject(opPromise, "Transaction timeout")
    /\ UNCHANGED <<txVars, upVars, connVars, storeVars, cfgVars, opStoreName, opRequest, opFinished, opTimeout>>

\* onTransactionTimeout's promise rejects: the async timer callback throws at
\* its await and reject() is never reached
OpTimeoutCallbackThrows ==
    /\ opPc.timer = "await"
    /\ opPc' = [opPc EXCEPT !.timer = "threw"]
    /\ UNCHANGED <<txVars, upVars, connVars, storeVars, cfgVars, opStoreName, opRequest, opFinished, opTimeout,
                   opPromise>>

\* request.onsuccess of iDBPromise
OpRequestSuccess(r) ==
    /\ opRequest.state = "pending"
    /\ opRequest' = [state |-> "success", value |-> r]
    /\ opFinished' = TRUE
    /\ opTimeout' = ClearTimeout(opTimeout)
    /\ opPromise' = Resolve(opPromise, r)
    /\ UNCHANGED <<txVars, upVars, connVars, storeVars, cfgVars, opStoreName, opPc>>

\* request.onerror of iDBPromise up to its await
OpRequestError(e) ==
    /\ opRequest.state = "pending"
    /\ opRequest' = [state |-> "error", value |-> e]
    /\ opTimeout' = ClearTimeout(opTimeout)
    /\ IF events.onError
       THEN /\ calls' = Append(calls, [cb |-> "onError", error |-> e])
            /\ opPc' = [opPc EXCEPT !.onerror = "await"]
            /\ UNCHANGED opPromise
       ELSE /\ opPromise' = Reject(opPromise, e)
            /\ opPc' = [opPc EXCEPT !.onerror = "done"]
            /\ UNCHANGED calls
    /\ UNCHANGED <<txVars, upVars, connVars, storeVars, events, transactionTimeout, opStoreName, opFinished>>

\* onError's promise fulfils: reject(request.error)
OpErrorCallbackReturns ==
    /\ opPc.onerror = "await"
    /\ opPc' = [opPc EXCEPT !.onerror = "done"]
    /\ opPromise' = Reject(opPromise, opRequest.value)
    /\ UNCHANGED <<txVars, upVars, connVars, storeVars, cfgVars, opStoreName, opRequest, opFinished, opTimeout>>

\* onError's promise rejects: request.onerror throws at its await
OpErrorCallbackThrows ==
    /\ opPc.onerror = "await"
    /\ opPc' = [opPc EXCEPT !.onerror = "threw"]
    /\ UNCHANGED <<txVars, upVars, connVars, storeVars, cfgVars, opStoreName, opRequest, opFinished, opTimeout,
                   opPromise>>

OpNext ==
    \/ OpTimerFires
    \/ OpTimeoutCallbackReturns
    \/ OpTimeoutCallbackThrows
    \/ \E r \in RequestResults : OpRequestSuccess(r)
    \/ \E e \in RequestErrors : OpRequestError(e)
    \/ OpErrorCallbackReturns
    \/ OpErrorCallbackThrows

\* ------------------------------------------------------------------------
\* transaction(): the coordinator (index.ts 429-477) and the engine's
\* transaction it wraps
\* ------------------------------------------------------------------------

\* most requests one transaction issues on its store handle
MaxOps == 3

Keys == {"k1", "k2"}
TxOps == [kind : {"add", "delete"}, key : Keys]

\* IDBObjectStore.add / delete on the records w: add fails with a
\* ConstraintError when the key is present
OpFails(w, op) == op.kind = "add" /\ w[op.key] # "undefined"

ApplyOp(w, op) ==
    IF OpFails(w, op) THEN w
    ELSE [w EXCEPT ![op.key] = IF op.kind = "add" THEN "v" ELSE "undefined"]

RECURSIVE ApplyAll(_, _)
\* the requests of ops applied to w one after the other, in issuance order
ApplyAll(w, ops) ==
    IF ops = <<>> THEN w ELSE ApplyAll(ApplyOp(w, Head(ops)), Tail(ops))

TxInit ==
    /\ events \in [onError : BOOLEAN, onTransactionTimeout : BOOLEAN]
    /\ transactionTimeout \in TimeoutValues
    /\ calls = <<>>
    /\ txStoreNames \in {<<1>>, <<1, 2>>}
    /\ callerPrevents \in BOOLEAN
    /\ durable \in {[k \in Keys |-> "undefined"],
                    [k \in Keys |-> IF k = "k1" THEN "old" ELSE "undefined"]}
    /\ durable0 = durable
    /\ txState = "active"
    /\ txError = "null"
    /\ txIssued = <<>>
    /\ txNext = 1
    /\ txWork = durable
    /\ txAbortEvent = "none"
    /\ txRefused = FALSE
    /\ txFinished = FALSE
    /\ txTimeout = "armed"
    /\ done = PendingPromise
    /\ txPc = [timer |-> "idle", awaitingOnError |-> 0]

\* transaction.error ?? new Error("Transaction aborted")
TxRejection(err) == IF err = "null" THEN "Transaction aborted" ELSE err

\* the caller issues a request on stores[name] while the transaction is active
TxIssue(op) ==
    /\ txState = "active"
    /\ Len(txIssued) < MaxOps
    /\ txIssued' = Append(txIssued, op)
    /\ UNCHANGED <<opVars, upVars, connVars, storeVars, cfgVars, txStoreNames, callerPrevents, durable, durable0, txState,
                   txError, txNext, txWork, txAbortEvent, txRefused, txFinished,
                   txTimeout, done, txPc>>

\* the caller issues a request on stores[name] when the transaction is no
\* longer active: the call throws and no request exists
TxIssueRefused ==
    /\ txState # "active"
    /\ ~txRefused
    /\ txRefused' = TRUE
    /\ UNCHANGED <<opVars, upVars, connVars, storeVars, cfgVars, txStoreNames, callerPrevents, durable, durable0, txState,
                   txError, txIssued, txNext, txWork, txAbortEvent, txFinished,
                   txTimeout, done, txPc>>

\* a coordinator that resolves `done` when a request succeeds instead of
\* when the transaction completes
TxRequestSuccessResolves ==
    /\ txState = "active"
    /\ txNext <= Len(txIssued)
    /\ ~OpFails(txWork, txIssued[txNext])
    /\ txWork' = ApplyOp(txWork, txIssued[txNext])
    /\ txNext' = txNext + 1
    /\ done' = Resolve(done, "undefined")
    /\ UNCHANGED <<opVars, upVars, connVars, storeVars, cfgVars, txStoreNames, callerPrevents, durable,
                   durable0, txState, txError, txIssued, txAbortEvent, txRefused,
                   txFinished, txTimeout, txPc>>

\* the engine executes the next request and it succeeds (nothing of
\* transaction() listens to a request's success)
TxRequestSuccess ==
    /\ txState = "active"
    /\ txNext <= Len(txIssued)
    /\ ~OpFails(txWork, txIssued[txNext])
    /\ txWork' = ApplyOp(txWork, txIssued[txNext])
    /\ txNext' = txNext + 1
    /\ UNCHANGED <<opVars, upVars, connVars, storeVars, cfgVars, txStoreNames, callerPrevents, durable, durable0, txState,
                   txError, txIssued, txAbortEvent, txRefused, txFinished, txTimeout,
                   done, txPc>>

\* The next request fails: its error event bubbles to transaction.onerror,
\* which runs up to its await while transaction.error is still null; then,
\* unless the caller's request.onerror called preventDefault(), the engine
\* aborts the transaction with the request's error and queues the abort event.
TxOnError ==
    /\ txState = "active"
    /\ txNext <= Len(txIssued)
    /\ OpFails(txWork, txIssued[txNext])
    /\ txNext' = txNext + 1
    /\ txFinished' = TRUE
    /\ txTimeout' = ClearTimeout(txTimeout)
    /\ IF events.onError
       THEN /\ calls' = Append(calls, [cb |-> "onError", error |-> txError])
            /\ txPc' = [txPc EXCEPT !.awaitingOnError = @ + 1]
            /\ UNCHANGED done
       ELSE /\ done' = Reject(done, TxRejection(txError))
            /\ UNCHANGED <<calls, txPc>>
    /\ IF callerPrevents
       THEN UNCHANGED <<txState, txError, txWork, txAbortEvent>>
       ELSE /\ txState' = "aborted"
            /\ txError' = "ConstraintError"
            /\ txWork' = durable
            /\ txAbortEvent' = "queued"
    /\ UNCHANGED <<opVars, upVars, connVars, storeVars, events, transactionTimeout, txStoreNames, callerPrevents, durable,
                   durable0, txIssued, txRefused>>

\* transaction.onabort up to its await
TxOnAbort ==
    /\ txAbortEvent = "queued"
    /\ txAbortEvent' = "fired"
    /\ txFinished' = TRUE
    /\ txTimeout' = ClearTimeout(txTimeout)
    /\ IF events.onError
       THEN /\ calls' = Append(calls, [cb |-> "onError", error |-> txError])
            /\ txPc' = [txPc EXCEPT !.awaitingOnError = @ + 1]
            /\ UNCHANGED done
       ELSE /\ done' = Reject(done, TxRejection(txError))
            /\ UNCHANGED <<calls, txPc>>
    /\ UNCHANGED <<opVars, upVars, connVars, storeVars, events, transactionTimeout, txStoreNames, callerPrevents, durable,
                   durable0, txState, txError, txIssued, txNext, txWork, txRefused>>

\* onError's promise fulfils in transaction.onerror or transaction.onabort:
\* reject(transaction.error ?? new Error("Transaction aborted"))
TxErrorCallbackReturns ==
    /\ txPc.awaitingOnError > 0
    /\ txPc' = [txPc EXCEPT !.awaitingOnError = @ - 1]
    /\ done' = Reject(done, TxRejection(txError))
    /\ UNCHANGED <<opVars, upVars, connVars, storeVars, cfgVars, txStoreNames, callerPrevents, durable, durable0, txState,
                   txError, txIssued, txNext, txWork, txAbortEvent, txRefused,
                   txFinished, txTimeout>>

\* every request is done and the caller's code has returned: the engine
\* starts to commit; from here on abort() throws an InvalidStateError
TxStartCommit ==
    /\ txState = "active"
    /\ txNext > Len(txIssued)
    /\ txState' = "committing"
    /\ UNCHANGED <<opVars, upVars, connVars, storeVars, cfgVars, txStoreNames, callerPrevents, durable, durable0, txError,
                   txIssued, txNext, txWork, txAbortEvent, txRefused, txFinished,
                   txTimeout, done, txPc>>

\* the commit is done: the records are durable and transaction.oncomplete runs
TxOnComplete ==
    /\ txState = "committing"
    /\ txState' = "committed"
    /\ durable' = txWork
    /\ txFinished' = TRUE
    /\ txTimeout' = ClearTimeout(txTimeout)
    /\ done' = Resolve(done, "undefined")
    /\ UNCHANGED <<opVars, upVars, connVars, storeVars, cfgVars, txStoreNames, callerPrevents, durable0, txError, txIssued,
                   txNext, txWork, txAbortEvent, txRefused, txPc>>

\* a timer callback that forgets transaction.abort()
TransactionAbortMissing == UNCHANGED <<txState, txWork, txAbortEvent>>

\* transaction.abort() on an active transaction: its writes are discarded,
\* it is finished at once and the engine queues its abort event
TransactionAbort ==
    /\ txState' = "aborted"
    /\ txWork' = durable
    /\ txAbortEvent' = "queued"

\* The setTimeout callback of transaction() up to its await: if (!finished)
\* transaction.abort(), which throws unless the transaction is still active,
\* then the timeout callback.
TxTimerFires ==
    /\ txTimeout = "armed"
    /\ txTimeout' = "fired"
    /\ IF txFinished
       THEN /\ txPc' = [txPc EXCEPT !.timer = "skipped"]
            /\ UNCHANGED <<txState, txWork, txAbortEvent, calls, done>>
       ELSE IF txState # "active"
       THEN /\ txPc' = [txPc EXCEPT !.timer = "threw"]
            /\ UNCHANGED <<txState, txWork, txAbortEvent, calls, done>>
       ELSE /\ TransactionAbort
            /\ IF events.onTransactionTimeout
               THEN /\ calls' = Append(calls,
                          [cb |-> "onTransactionTimeout",
                           storeNames |-> txStoreNames,
                           timeout |-> transactionTimeout])
                    /\ txPc' = [txPc EXCEPT !.timer = "await"]
                    /\ UNCHANGED done
               ELSE /\ done' = Reject(done, "Transaction timeout")
                    /\ txPc' = [txPc EXCEPT !.timer = "done"]
                    /\ UNCHANGED calls
    /\ UNCHANGED <<opVars, upVars, connVars, storeVars, events, transactionTimeout, txStoreNames, callerPrevents, durable,
                   durable0, txError, txIssued, txNext, txRefused, txFinished>>

\* onTransactionTimeout's promise fulfils: reject(new Error("Transaction timeout"))
TxTimeoutCallbackReturns ==
    /\ txPc.timer = "await"
    /\ txPc' = [txPc EXCEPT !.timer = "done"]
    /\ done' = Reject(done, "Transaction timeout")
    /\ UNCHANGED <<opVars, upVars, connVars, storeVars, cfgVars, txStoreNames, callerPrevents, durable, durable0, txState,
                   txError, txIssued, txNext, txWork, txAbortEvent, txRefused,
                   txFinished, txTimeout>>

TxNext ==
    \/ TxTimerFires
    \/ TxTimeoutCallbackReturns
    \/ TxOnAbort
    \/ TxOnError
    \/ TxErrorCallbackReturns
    \/ TxOnComplete
    \/ \E op \in TxOps : TxIssue(op)
    \/ TxIssueRefused
    \/ TxRequestSuccess
    \/ TxStartCommit

\* ------------------------------------------------------------------------
\* openIndexedDB: onupgradeneeded (index.ts 223-269) and onsuccess, with the
\* engine's upgrade transaction
\* ------------------------------------------------------------------------

\* most entries of config.migrations
MaxMigrations == 2

\* the versions a database, a configuration or a migration may carry
Versions == {1, 2, 3}

\* names of the indexes a store may hold
IndexNames == {1}

Range(f) == {f[i] : i \in DOMAIN f}

RECURSIVE SortedSeq(_)
\* a DOMStringList (objectStoreNames, indexNames): the names in ascending order
SortedSeq(S) ==
    IF S = {} THEN <<>>
    ELSE LET m == CHOOSE x \in S : \A y \in S : x <= y
         IN <<m>> \o SortedSeq(S \ {m})

RECURSIVE Insert(_, _)
Insert(v, sorted) ==
    IF sorted = <<>> THEN <<v>>
    ELSE IF v < Head(sorted) THEN <<v>> \o sorted
    ELSE <<Head(sorted)>> \o Insert(v, Tail(sorted))

\* a runner that takes the migrations in the order of the configuration
SortByVersionSkipped(list) == list

RECURSIVE SortByVersion(_)
\* config.migrations.sort((a, b) => a.version - b.version)
SortByVersion(list) ==
    IF list = <<>> THEN <<>>
    ELSE LET n == Len(list)
         IN Insert(list[n], SortByVersion(SubSeq(list, 1, n - 1)))

\* migration.version > oldVersion && migration.version <= newVersion
InRange(v, old, new) == v > old /\ v <= new

\* the first migration at or after position `from` that the loop invokes,
\* 0 when the loop runs to its end without invoking one
NextMigration(list, from, old, new) ==
    LET S == {i \in from..Len(list) : InRange(list[i], old, new)}
    IN IF S = {} THEN 0 ELSE CHOOSE i \in S : \A j \in S : i <= j

Ev(ev, by, store, index, version) ==
    [ev |-> ev, by |-> by, store |-> store, index |-> index, version |-> version]

EmptyStructure == [stores |-> {}, indexes |-> [s \in StoreNames |-> {}]]

Structures ==
    {st \in [stores : SUBSET StoreNames, indexes : [StoreNames -> SUBSET IndexNames]] :
        \A s \in StoreNames \ st.stores : st.indexes[s] = {}}

\* a StoreSchema: its name, its index names, and whether createObjectStore
\* accepts its options (it throws on, e.g., autoIncrement with an empty keyPath)
StoreSchemas ==
    [name : StoreNames, index : {<<>>, <<1>>}, bad : BOOLEAN]

StoreConfigs ==
    {<<>>} \cup {<<a>> : a \in StoreSchemas}
           \cup {p \in StoreSchemas \X StoreSchemas : p[1].name # p[2].name}

MigrationLists == UNION {[1..n -> Versions] : n \in 0..MaxMigrations}

\* ---- the Schema Synchronizer (index.ts 241-265), as one synchronous run.
\* st = [stores, indexes, ops, threw]: the structure, the structural changes
\* issued so far and whether one of them has thrown.

SyncOp(st, op, s, i) == Append(st.ops, Ev(op, "library", s, i, 0))

RECURSIVE DeleteStaleStores(_, _, _, _)
\* for (const storeName of db.objectStoreNames) ... db.deleteObjectStore
DeleteStaleStores(st, names, stores, active) ==
    IF names = <<>> \/ st.threw THEN st
    ELSE LET n == Head(names)
             stale == \A i \in DOMAIN stores : stores[i].name # n
             st1 == IF ~stale THEN st
                    ELSE IF ~active THEN [st EXCEPT !.threw = TRUE]
                    ELSE [st EXCEPT !.stores = @ \ {n},
                                    !.indexes[n] = {},
                                    !.ops = SyncOp(st, "deleteObjectStore", n, 0)]
         IN DeleteStaleStores(st1, Tail(names), stores, active)

\* a Synchronizer that leaves the stale indexes in place
DeleteStaleIndexesSkipped(st, store, names) == st

RECURSIVE DeleteStaleIndexes(_, _, _)
\* for (const currentIndex of currentStore.indexNames) ... deleteIndex
DeleteStaleIndexes(st, store, names) ==
    IF names = <<>> THEN st
    ELSE LET i == Head(names)
             st1 == IF i \in Range(store.index) THEN st
                    ELSE [st EXCEPT !.indexes[store.name] = @ \ {i},
                                    !.ops = SyncOp(st, "deleteIndex", store.name, i)]
         IN DeleteStaleIndexes(st1, store, Tail(names))

RECURSIVE CreateMissingIndexes(_, _, _)
\* store?.index?.forEach(... currentStore.createIndex ...)
CreateMissingIndexes(st, store, index) ==
    IF index = <<>> THEN st
    ELSE LET i == Head(index)
             st1 == IF i \in st.indexes[store.name] THEN st
                    ELSE [st EXCEPT !.indexes[store.name] = @ \cup {i},
                                    !.ops = SyncOp(st, "createIndex", store.name, i)]
         IN CreateMissingIndexes(st1, store, Tail(index))

\* a Synchronizer that creates the missing indexes of a store before it
\* deletes the stale ones
SyncStoreCreatesFirst(st, store, active) ==
    LET missing == store.name \notin st.stores
        st1 == IF ~missing THEN st
               ELSE IF ~active \/ store.bad THEN [st EXCEPT !.threw = TRUE]
               ELSE [st EXCEPT !.stores = @ \cup {store.name},
                               !.ops = SyncOp(st, "createObjectStore", store.name, 0)]
    IN IF st1.threw THEN st1
       ELSE IF ~active THEN [st1 EXCEPT !.threw = TRUE]
       ELSE LET st2 == CreateMissingIndexes(st1, store, store.index)
            IN DeleteStaleIndexes(st2, store, SortedSeq(st1.indexes[store.name]))

\* the body of `for (const store of config.stores)` for one store
SyncStore(st, store, active) ==
    LET missing == store.name \notin st.stores
        st1 == IF ~missing THEN st
               ELSE IF ~active \/ store.bad THEN [st EXCEPT !.threw = TRUE]
               ELSE [st EXCEPT !.stores = @ \cup {store.name},
                               !.ops = SyncOp(st, "createObjectStore", store.name, 0)]
    IN IF st1.threw THEN st1
       \* request.transaction!.objectStore(store.name) of a finished transaction
       ELSE IF ~active THEN [st1 EXCEPT !.threw = TRUE]
       ELSE CreateMissingIndexes(
                DeleteStaleIndexes(st1, store, SortedSeq(st1.indexes[store.name])),
                store, store.index)

RECURSIVE SyncStores(_, _, _)
SyncStores(st, stores, active) ==
    IF stores = <<>> \/ st.threw THEN st
    ELSE SyncStores(SyncStore(st, Head(stores), active), Tail(stores), active)

\* a Synchronizer that deletes every store of the database and builds the
\* configured ones anew
SynchronizeFromScratch(structure, stores, active) ==
    LET st0 == [stores |-> structure.stores, indexes |-> structure.indexes,
                ops |-> <<>>, threw |-> FALSE]
    IN SyncStores(DeleteStaleStores(st0, SortedSeq(structure.stores), <<>>, active),
                  stores, active)

\* the else branch of onupgradeneeded
Synchronize(structure, stores, active) ==
    LET st0 == [stores |-> structure.stores, indexes |-> structure.indexes,
                ops |-> <<>>, threw |-> FALSE]
    IN SyncStores(DeleteStaleStores(st0, SortedSeq(structure.stores), stores, active),
                  stores, active)

\* a dispatch that runs the Synchronizer whatever config.migrations is
RunsMigrationsNever(m) == FALSE

\* which reconciliation onupgradeneeded runs: Array.isArray(config.migrations)
RunsMigrations(m) == m.isArray

UpInit ==
    /\ cfgStores \in StoreConfigs
    /\ cfgMigrations \in
          {[isArray |-> FALSE, list |-> <<>>]}
            \cup {[isArray |-> TRUE, list |-> l] : l \in MigrationLists}
    /\ oldVersion \in {0} \cup Versions
    /\ newVersion \in Versions
    /\ oldVersion < newVersion
    \* the migration runner never reads a store's options
    /\ cfgMigrations.isArray => \A i \in DOMAIN cfgStores : ~cfgStores[i].bad
    /\ disk \in {[structure |-> st, version |-> oldVersion] : st \in Structures}
    /\ oldVersion = 0 => disk.structure = EmptyStructure
    /\ disk0 = disk
    /\ db = disk.structure
    /\ upTx = "active"
    /\ upPc = "opening"
    /\ migIdx = 0
    /\ upTrace = <<>>
    /\ openPromise = PendingPromise
    /\ opened = FALSE
    /\ openError = [pc |-> "idle", error |-> "none"]

\* what a migration does with the structure before its first await: the
\* guarded createObjectStore / deleteObjectStore of the README's example
MigrationActs == [kind : {"create", "delete"}, store : StoreNames]

\* whether the migration's act issues a structural change on structure st
ActChanges(st, act) ==
    IF act.kind = "create" THEN act.store \notin st.stores ELSE act.store \in st.stores

ActApply(st, act) ==
    IF ~ActChanges(st, act) THEN st
    ELSE IF act.kind = "create"
    THEN [st EXCEPT !.stores = @ \cup {act.store}]
    ELSE [st EXCEPT !.stores = @ \ {act.store}, !.indexes[act.store] = {}]

ActEvents(st, act, v) ==
    IF ~ActChanges(st, act) THEN <<>>
    ELSE <<Ev(IF act.kind = "create" THEN "createObjectStore" ELSE "deleteObjectStore",
              "migration", act.store, 0, v)>>

\* a handler that returns without calling onUpgradeEnd
CallUpgradeEndSkipped(tr) ==
    /\ upTrace' = tr
    /\ upPc' = "awaitUpgradeEnd"

\* await config.events?.onUpgradeEnd?.({ db, oldVersion, newVersion })
CallUpgradeEnd(tr) ==
    /\ upTrace' = Append(tr, Ev("onUpgradeEnd", "library", 0, 0, 0))
    /\ upPc' = "awaitUpgradeEnd"

\* The for loop over the sorted migrations from position `from` up to the
\* next await: the next migration in range is invoked and runs up to its
\* first await, or the loop ends and onUpgradeEnd is called.  A structural
\* change on a transaction that is no longer active throws, which rejects
\* the migration's promise at once.
RunMigrations(list, from, tr) ==
    LET i == NextMigration(list, from, oldVersion, newVersion)
    IN IF i = 0
       THEN /\ CallUpgradeEnd(tr)
            /\ UNCHANGED <<db, migIdx>>
       ELSE \E act \in MigrationActs :
              LET started == Append(tr, Ev("migration", "library", 0, 0, list[i]))
              IN /\ migIdx' = i
                 /\ IF ActChanges(db, act) /\ upTx # "active"
                    THEN /\ upTrace' = Append(started,
                                           Ev("rejected", "migration", 0, 0, list[i]))
                         /\ upPc' = "threw"
                         /\ UNCHANGED db
                    ELSE /\ upTrace' = started \o ActEvents(db, act, list[i])
                         /\ upPc' = "awaitMigration"
                         /\ db' = ActApply(db, act)

\* indexedDBRequest.onupgradeneeded up to its first await; the engine fires
\* upgradeneeded once every other connection is closed.  config.events is
\* taken to supply onUpgradeStart and onUpgradeEnd; an absent callback behaves
\* as one whose promise fulfils at once.
UpgradeNeeded ==
    /\ upPc = "opening"
    /\ openError.pc = "idle"
    /\ holder.conn = "closed"
    /\ upTrace' = Append(upTrace, Ev("onUpgradeStart", "library", 0, 0, 0))
    /\ upPc' = "awaitUpgradeStart"
    /\ UNCHANGED <<cfgVars, opVars, txVars, connVars, storeVars, cfgStores, cfgMigrations, oldVersion,
                   newVersion, disk, disk0, db, upTx, migIdx, openPromise, opened,
                   openError>>

\* onUpgradeStart's promise fulfils: the handler dispatches to the
\* migrations or to the Synchronizer and runs up to its next await
UpgradeStartReturns ==
    /\ upPc = "awaitUpgradeStart"
    /\ IF RunsMigrations(cfgMigrations)
       THEN LET sorted == SortByVersion(cfgMigrations.list)
            IN /\ cfgMigrations' = [cfgMigrations EXCEPT !.list = sorted]
               /\ RunMigrations(sorted, 1, upTrace)
       ELSE LET st == Synchronize(db, cfgStores, upTx = "active")
            IN /\ db' = [stores |-> st.stores, indexes |-> st.indexes]
               /\ IF st.threw
                  THEN /\ upTrace' = upTrace \o st.ops
                       /\ upPc' = "threw"
                  ELSE CallUpgradeEnd(upTrace \o st.ops)
               /\ UNCHANGED <<cfgMigrations, migIdx>>
    /\ UNCHANGED <<cfgVars, opVars, txVars, connVars, storeVars, cfgStores, oldVersion, newVersion, disk,
                   disk0, upTx, openPromise, opened,
                   openError>>

\* the awaited migration's promise fulfils: the loop goes on
MigrationReturns ==
    /\ upPc = "awaitMigration"
    /\ RunMigrations(cfgMigrations.list, migIdx + 1,
                     Append(upTrace, Ev("fulfilled", "migration", 0, 0,
                                        cfgMigrations.list[migIdx])))
    /\ UNCHANGED <<cfgVars, opVars, txVars, connVars, storeVars, cfgStores, cfgMigrations, oldVersion,
                   newVersion, disk, disk0, upTx, openPromise, opened,
                   openError>>

\* the awaited migration's promise rejects: the handler throws at its await
MigrationRejects ==
    /\ upPc = "awaitMigration"
    /\ upTrace' = Append(upTrace, Ev("rejected", "migration", 0, 0,
                                     cfgMigrations.list[migIdx]))
    /\ upPc' = "threw"
    /\ UNCHANGED <<cfgVars, opVars, txVars, connVars, storeVars, cfgStores, cfgMigrations, oldVersion,
                   newVersion, disk, disk0, db, upTx, migIdx, openPromise, opened,
                   openError>>

\* onUpgradeEnd's promise fulfils: the handler returns
UpgradeEndReturns ==
    /\ upPc = "awaitUpgradeEnd"
    /\ upPc' = "returned"
    /\ UNCHANGED <<cfgVars, opVars, txVars, connVars, storeVars, cfgStores, cfgMigrations, oldVersion,
                   newVersion, disk, disk0, db, upTx, migIdx, upTrace, openPromise, opened,
                   openError>>

\* The engine commits the upgrade transaction once no request is pending on
\* it and no handler is running: after the handler has returned or thrown,
\* or while it is suspended at an await.  Nothing in the handler aborts it.
UpgradeTxCommits ==
    /\ upTx = "active"
    /\ upPc \in {"awaitUpgradeStart", "awaitMigration", "awaitUpgradeEnd",
                 "returned", "threw"}
    /\ upTx' = "committed"
    /\ disk' = [structure |-> db, version |-> newVersion]
    /\ UNCHANGED <<cfgVars, opVars, txVars, connVars, storeVars, cfgStores, cfgMigrations, oldVersion,
                   newVersion, disk0, db, upPc, migIdx, upTrace, openPromise, opened,
                   openError>>

\* indexedDBRequest.onsuccess: the instance is built over the connection and
\* resolve(indexedDBInstance) is called
OpenSuccess ==
    /\ upTx = "committed"
    /\ ~opened
    /\ opened' = TRUE
    /\ openPromise' = Resolve(openPromise, "indexedDBInstance")
    /\ UNCHANGED <<cfgVars, opVars, txVars, connVars, storeVars, cfgStores, cfgMigrations, oldVersion,
                   newVersion, disk, disk0, db, upTx, upPc, migIdx, upTrace, openError>>

UpNext ==
    \/ UpgradeNeeded
    \/ UpgradeStartReturns
    \/ MigrationReturns
    \/ MigrationRejects
    \/ UpgradeEndReturns
    \/ UpgradeTxCommits
    \/ OpenSuccess

\* ------------------------------------------------------------------------
\* The Schema Synchronizer alone (index.ts 240-266): upgrades without
\* config.migrations, over stores that may hold two indexes
\* ------------------------------------------------------------------------

SyncIndexNames == {1, 2}

SyncStructures ==
    {st \in [stores : SUBSET StoreNames,
             indexes : [StoreNames -> SUBSET SyncIndexNames]] :
        \A s \in StoreNames \ st.stores : st.indexes[s] = {}}

\* config.stores entries whose index lists name up to two indexes
SyncSchemas ==
    [name : StoreNames, index : {<<>>, <<1>>, <<2>>, <<1, 2>>, <<2, 1>>},
     bad : BOOLEAN]

SyncConfigs ==
    {<<>>} \cup {<<a>> : a \in SyncSchemas}
           \cup {p \in SyncSchemas \X SyncSchemas : p[1].name # p[2].name}

\* a first open (version 0 to 1) or a reopen at the next version
SyncInit ==
    /\ cfgStores \in SyncConfigs
    /\ cfgMigrations = [isArray |-> FALSE, list |-> <<>>]
    /\ oldVersion \in {0, 1}
    /\ newVersion = oldVersion + 1
    /\ disk \in {[structure |-> st, version |-> oldVersion] : st \in SyncStructures}
    /\ oldVersion = 0 => disk.structure = EmptyStructure
    /\ disk0 = disk
    /\ db = disk.structure
    /\ upTx = "active"
    /\ upPc = "opening"
    /\ migIdx = 0
    /\ upTrace = <<>>
    /\ openPromise = PendingPromise
    /\ opened = FALSE
    /\ openError = [pc |-> "idle", error |-> "none"]

SyncNext ==
    \/ UpgradeNeeded
    \/ UpgradeStartReturns
    \/ UpgradeEndReturns
    \/ UpgradeTxCommits
    \/ OpenSuccess

\* ------------------------------------------------------------------------
\* openIndexedDB while an earlier instance (the holder) has the database
\* open at oldVersion: db.onversionchange of the holder (index.ts 275-281),
\* indexedDBRequest.onblocked of the open attempt (index.ts 210-221), and
\* the engine's steps of opening at a higher version: it fires versionchange
\* at the holder; if the holder's connection is still open once that event
\* has been dispatched, it fires blocked at the request; it starts the
\* upgrade when the holder's connection is closed.
\* ------------------------------------------------------------------------

\* the variables of the upgrade that the two handlers leave alone
upgradeState == <<cfgStores, cfgMigrations, oldVersion, newVersion, disk, disk0, db,
                  upTx, upPc, migIdx, upTrace, opened, openError>>

\* new Error(`You are not allowed to upgrade the database when it is already
\* active. ...`)
DefaultBlockedError == "upgrade blocked"

\* what the promise of onBlocked resolves to: nothing, or an Error of its own
OnBlockedResults == {"undefined", "custom error"}

\* await config.events.onBlocked({ oldVersion, newVersion }) ?? error
BlockedError(result, error) == IF result = "undefined" THEN error ELSE result

ConnInit ==
    /\ events \in [onBlocked : BOOLEAN, onError : BOOLEAN]
    /\ transactionTimeout = DefaultTimeout
    /\ calls = <<>>
    /\ holder \in {[conn |-> "open", onVersionChange |-> b, pc |-> "idle"] : b \in BOOLEAN}
    /\ blocked = [pc |-> "idle", error |-> "none"]
    /\ UpInit
    \* the holder opened the database, so it has a version
    /\ oldVersion >= 1
    \* the upgrade itself is explored under SpecUpgrade
    /\ cfgStores \in {<<>>, <<[name |-> 1, index |-> <<1>>, bad |-> FALSE]>>}
    /\ Len(cfgMigrations.list) <= 1

\* db.onversionchange of the holder up to its await; without an
\* onVersionChange the handler goes on to db.close() before the engine looks
\* at the connection again
VersionChange ==
    /\ upPc = "opening"
    /\ openError.pc = "idle"
    /\ holder.conn = "open"
    /\ holder.pc = "idle"
    /\ IF holder.onVersionChange
       THEN /\ calls' = Append(calls, [cb |-> "onVersionChange",
                                      oldVersion |-> oldVersion,
                                      newVersion |-> newVersion])
            /\ holder' = [holder EXCEPT !.pc = "await"]
       ELSE /\ holder' = [holder EXCEPT !.pc = "done", !.conn = "closed"]
            /\ UNCHANGED calls
    /\ UNCHANGED <<storeVars, opVars, txVars, upgradeState, openPromise, events,
                   transactionTimeout, blocked>>

\* onVersionChange's promise fulfils: db.close()
VersionChangeCallbackReturns ==
    /\ holder.pc = "await"
    /\ holder' = [holder EXCEPT !.pc = "done", !.conn = "closed"]
    /\ UNCHANGED <<storeVars, opVars, txVars, upgradeState, openPromise, cfgVars, blocked>>

\* onVersionChange's promise rejects: the handler throws at its await and
\* db.close() is not reached
VersionChangeCallbackRejects ==
    /\ holder.pc = "await"
    /\ holder' = [holder EXCEPT !.pc = "threw"]
    /\ UNCHANGED <<storeVars, opVars, txVars, upgradeState, openPromise, cfgVars, blocked>>

\* the holder's caller closes the connection itself (instance.db.close(), or
\* the db.close() of deleteDatabase)
HolderCloses ==
    /\ holder.conn = "open"
    /\ holder' = [holder EXCEPT !.conn = "closed"]
    /\ UNCHANGED <<storeVars, opVars, txVars, upgradeState, openPromise, cfgVars, blocked>>

\* await config.events?.onError?.(error); reject(error), up to the await
BlockedReport(error, cs) ==
    IF events.onError
    THEN /\ calls' = Append(cs, [cb |-> "onError", error |-> error])
         /\ blocked' = [pc |-> "awaitOnError", error |-> error]
         /\ UNCHANGED openPromise
    ELSE /\ calls' = cs
         /\ blocked' = [pc |-> "done", error |-> error]
         /\ openPromise' = Reject(openPromise, error)

\* indexedDBRequest.onblocked up to its first await.  The engine fires
\* blocked when the versionchange event has been dispatched to the holder
\* and the holder's connection is still open.
Blocked ==
    /\ upPc = "opening"
    /\ openError.pc = "idle"
    /\ holder.conn = "open"
    /\ holder.pc \in {"await", "threw"}
    /\ blocked.pc = "idle"
    /\ IF events.onBlocked
       THEN /\ calls' = Append(calls, [cb |-> "onBlocked",
                                      oldVersion |-> oldVersion,
                                      newVersion |-> newVersion])
            /\ blocked' = [pc |-> "awaitOnBlocked", error |-> DefaultBlockedError]
            /\ UNCHANGED openPromise
       ELSE BlockedReport(DefaultBlockedError, calls)
    /\ UNCHANGED <<storeVars, opVars, txVars, upgradeState, events, transactionTimeout, holder>>

\* onBlocked's promise fulfils with `result`
OnBlockedReturns(result) ==
    /\ blocked.pc = "awaitOnBlocked"
    /\ BlockedReport(BlockedError(result, blocked.error), calls)
    /\ UNCHANGED <<storeVars, opVars, txVars, upgradeState, events, transactionTimeout, holder>>

\* onBlocked's promise rejects: onblocked throws at its await
OnBlockedRejects ==
    /\ blocked.pc = "awaitOnBlocked"
    /\ blocked' = [blocked EXCEPT !.pc = "threw"]
    /\ UNCHANGED <<storeVars, opVars, txVars, upgradeState, openPromise, cfgVars, holder>>

\* onError's promise fulfils in onblocked: reject(error)
BlockedErrorCallbackReturns ==
    /\ blocked.pc = "awaitOnError"
    /\ blocked' = [blocked EXCEPT !.pc = "done"]
    /\ openPromise' = Reject(openPromise, blocked.error)
    /\ UNCHANGED <<storeVars, opVars, txVars, upgradeState, cfgVars, holder>>

\* onError's promise rejects in onblocked: reject(error) is not reached
BlockedErrorCallbackRejects ==
    /\ blocked.pc = "awaitOnError"
    /\ blocked' = [blocked EXCEPT !.pc = "threw"]
    /\ UNCHANGED <<storeVars, opVars, txVars, upgradeState, openPromise, cfgVars, holder>>

\* what the engine reports when it cannot open the database
OpenErrors == {"UnknownError", "QuotaExceededError"}

\* indexedDBRequest.onerror up to its await: the engine gives the attempt up
\* before the upgrade has started; no other event follows on the request
OpenError(e) ==
    /\ upPc = "opening"
    /\ openError.pc = "idle"
    /\ IF events.onError
       THEN /\ calls' = Append(calls, [cb |-> "onError", error |-> e])
            /\ openError' = [pc |-> "await", error |-> e]
            /\ UNCHANGED openPromise
       ELSE /\ openError' = [pc |-> "done", error |-> e]
            /\ openPromise' = Reject(openPromise, e)
            /\ UNCHANGED calls
    /\ UNCHANGED <<storeVars, opVars, txVars, connVars, events, transactionTimeout,
                   cfgStores, cfgMigrations, oldVersion, newVersion, disk, disk0, db,
                   upTx, upPc, migIdx, upTrace, opened>>

\* onError's promise fulfils in onerror: reject(error)
OpenErrorCallbackReturns ==
    /\ openError.pc = "await"
    /\ openError' = [openError EXCEPT !.pc = "done"]
    /\ openPromise' = Reject(openPromise, openError.error)
    /\ UNCHANGED <<storeVars, opVars, txVars, connVars, cfgVars, cfgStores,
                   cfgMigrations, oldVersion, newVersion, disk, disk0, db, upTx, upPc,
                   migIdx, upTrace, opened>>

\* onError's promise rejects in onerror: reject(error) is not reached
OpenErrorCallbackRejects ==
    /\ openError.pc = "await"
    /\ openError' = [openError EXCEPT !.pc = "threw"]
    /\ UNCHANGED <<storeVars, opVars, txVars, connVars, cfgVars, cfgStores,
                   cfgMigrations, oldVersion, newVersion, disk, disk0, db, upTx, upPc,
                   migIdx, upTrace, opened, openPromise>>

ConnNext ==
    \/ VersionChange
    \/ VersionChangeCallbackReturns
    \/ VersionChangeCallbackRejects
    \/ HolderCloses
    \/ Blocked
    \/ \E result \in OnBlockedResults : OnBlockedReturns(result)
    \/ OnBlockedRejects
    \/ BlockedErrorCallbackReturns
    \/ BlockedErrorCallbackRejects
    \/ UpgradeNeeded
    \/ UpgradeStartReturns
    \/ MigrationReturns
    \/ MigrationRejects
    \/ UpgradeEndReturns
    \/ UpgradeTxCommits
    \/ OpenSuccess
    \/ \E e \in OpenErrors : OpenError(e)
    \/ OpenErrorCallbackReturns
    \/ OpenErrorCallbackRejects

\* ------------------------------------------------------------------------
\* The useStore operations on the opened database (index.ts 336-412), each
\* through iDBPromise, and clearDatabase (index.ts 480-485), with the
\* engine's object stores.  Every operation opens a transaction of its own;
\* the engine runs a transaction whose scope overlaps an earlier read-write
\* transaction only when that one has finished.  Every request is taken to
\* be answered before its timer elapses: the race with the timer is the
\* subject of SpecOp.
\* ------------------------------------------------------------------------

\* most useStore operations the caller makes, one after the other
MaxCalls == 3

\* most clearDatabase() calls in succession, each but the last resolved
MaxClears == 2

\* the values stored: objects { id, name } in stores with keyPath "id"
Names == {"a", "b"}
StoreRecords == [id : Keys, name : Names]

\* the keys in the engine's key order
SortedKeys == <<"k1", "k2">>

\* the records of a store: the name stored under each key, if any
EmptyStore == [k \in Keys |-> "undefined"]

\* the result of a get that finds no record
NoRecord == [missing |-> TRUE]

\* the calls a caller makes on useStore(name), cursors apart
StoreOps ==
    {[kind |-> k, key |-> r.id, name |-> r.name] :
        k \in {"add", "put"}, r \in StoreRecords}
      \cup {[kind |-> k, key |-> key, name |-> "-"] :
               k \in {"get", "getKey", "delete"}, key \in Keys}
      \cup {[kind |-> k, key |-> "-", name |-> "-"] :
               k \in {"getAll", "getAllKeys", "count", "clear"}}

\* the stores the caller takes with useStore(name); clearDatabase goes over
\* every store of config.stores
CalledStores == {1}

NoOp == [kind |-> "none", key |-> "-", name |-> "-"]

\* a clearDatabase that counts the records of each store
ClearOpCounts == [kind |-> "count", key |-> "-", name |-> "-"]

\* currentStore.clear() of clearDatabase
ClearOp == [kind |-> "clear", key |-> "-", name |-> "-"]

\* the engine's methods that write: they throw in a read-only transaction
WriteKinds == {"add", "put", "delete", "clear"}

\* operations that all open their transaction read-only
StoreModeReadonly(kind) == "readonly"

\* the mode of db.transaction(storeName, mode) in each operation
StoreMode(kind) ==
    IF kind \in {"add", "put", "count", "clear", "delete"}
    THEN "readwrite" ELSE "readonly"

KeysOf(view) == SelectSeq(SortedKeys, LAMBDA k : view[k] # "undefined")

RecordAt(view, k) ==
    IF view[k] = "undefined" THEN NoRecord ELSE [id |-> k, name |-> view[k]]

\* IDBObjectStore.add on a key that is present: the request fires error
RequestFails(view, op) == op.kind = "add" /\ view[op.key] # "undefined"

\* request.result of the engine's request for op on the records `view`
RequestResult(view, op) ==
    CASE op.kind \in {"add", "put"} -> op.key
      [] op.kind = "get" -> RecordAt(view, op.key)
      [] op.kind = "getKey" ->
            IF view[op.key] = "undefined" THEN "undefined" ELSE op.key
      [] op.kind = "getAll" ->
            [i \in DOMAIN KeysOf(view) |-> RecordAt(view, KeysOf(view)[i])]
      [] op.kind = "getAllKeys" -> KeysOf(view)
      [] op.kind = "count" -> Len(KeysOf(view))
      [] OTHER -> "undefined"

\* the records after the engine's request for op
RequestEffect(view, op) ==
    CASE op.kind \in {"add", "put"} -> [view EXCEPT ![op.key] = op.name]
      [] op.kind = "delete" -> [view EXCEPT ![op.key] = "undefined"]
      [] op.kind = "clear" -> EmptyStore
      [] OTHER -> view

NoTransaction == [pending |-> FALSE, store |-> 0, view |-> EmptyStore]

\* the records of store s as the next transaction on it will see them
Visible(s) ==
    IF uncommitted.pending /\ uncommitted.store = s
    THEN uncommitted.view ELSE records[s]

\* the caller is awaiting the promise of a useStore operation
InFlight == call.op.kind # "none" /\ opPromise.state = "pending"

\* the opened instances: the structure of the database against config.stores
\* (equal after a synchronizing upgrade, whatever the migrations built
\* otherwise), and the records its stores hold
StoreInit ==
    /\ events \in {[onError |-> b, onTransactionTimeout |-> FALSE] : b \in BOOLEAN}
    /\ transactionTimeout = DefaultTimeout
    /\ calls = <<>>
    /\ cfgStores \in {c \in StoreConfigs :
                        \A i \in DOMAIN c : ~c[i].bad /\ c[i].index = <<>>}
    /\ cfgMigrations \in {[isArray |-> FALSE, list |-> <<>>],
                          [isArray |-> TRUE, list |-> <<1>>]}
    /\ db \in {st \in Structures : 1 \in st.stores /\ st.indexes = EmptyStructure.indexes}
    /\ ~cfgMigrations.isArray =>
          db.stores = {cfgStores[i].name : i \in DOMAIN cfgStores}
    /\ oldVersion = 0
    /\ newVersion = 1
    /\ disk = [structure |-> db, version |-> newVersion]
    /\ disk0 = [structure |-> EmptyStructure, version |-> 0]
    /\ upTx = "committed"
    /\ upPc = "returned"
    /\ migIdx = 0
    /\ upTrace = <<>>
    /\ openPromise = [state |-> "fulfilled", value |-> "indexedDBInstance"]
    /\ opened = TRUE
    /\ openError = [pc |-> "idle", error |-> "none"]
    /\ records \in {r \in [StoreNames -> {EmptyStore, [EmptyStore EXCEPT !["k1"] = "a"]}] :
                      \A s \in StoreNames \ db.stores : r[s] = EmptyStore}
    /\ uncommitted = NoTransaction
    /\ call = [op |-> NoOp, before |-> EmptyStore, n |-> 0]
    /\ clearing = [pc |-> "idle", idx |-> 0, runs |-> 0]
    /\ clearPromise = PendingPromise

\* a connection on which db.transaction never refuses
ConnectionClosedIgnored == FALSE

\* db.transaction on a connection that was closed throws an InvalidStateError
ConnectionClosed == holder.conn = "closed"

\* One useStore(s) operation up to the return of iDBPromise's executor:
\* db.transaction(s, mode), which throws when the connection is closed or
\* the database has no store s, the request on the store, which throws when
\* a write is made in a read-only transaction, and the arming of the timer.
\* A throw rejects the promise of the async operation.
IssueCall(s, op, n) ==
    /\ opStoreName' = s
    /\ call' = [op |-> op, before |-> Visible(s), n |-> n]
    /\ opFinished' = FALSE
    /\ opPc' = [timer |-> "idle", onerror |-> "idle"]
    /\ IF ConnectionClosed
       THEN /\ opPromise' = [state |-> "rejected", value |-> "InvalidStateError"]
            /\ opRequest' = [state |-> "none", value |-> "none"]
            /\ opTimeout' = "cleared"
       ELSE IF s \notin db.stores
       THEN /\ opPromise' = [state |-> "rejected", value |-> "NotFoundError"]
            /\ opRequest' = [state |-> "none", value |-> "none"]
            /\ opTimeout' = "cleared"
       ELSE IF op.kind \in WriteKinds /\ StoreMode(op.kind) = "readonly"
       THEN /\ opPromise' = [state |-> "rejected", value |-> "ReadOnlyError"]
            /\ opRequest' = [state |-> "none", value |-> "none"]
            /\ opTimeout' = "cleared"
       ELSE /\ opPromise' = PendingPromise
            /\ opRequest' = [state |-> "pending", value |-> "none"]
            /\ opTimeout' = "armed"

\* the caller, awaiting nothing, calls an operation of useStore(s)
StoreCall(s, op) ==
    /\ ~InFlight
    /\ clearing.pc # "running"
    /\ call.n < MaxCalls
    /\ IssueCall(s, op, call.n + 1)
    /\ clearing' = [pc |-> "idle", idx |-> 0, runs |-> 0]
    /\ UNCHANGED <<cfgVars, txVars, upVars, connVars, records, uncommitted,
                   clearPromise, cursor, cursorPromise>>

\* the engine executes the request and it succeeds: request.onsuccess of
\* iDBPromise resolves the promise with request.result
StoreRequestSuccess ==
    /\ opRequest.state = "pending"
    /\ call.op.kind # "none"
    /\ ~uncommitted.pending
    /\ ~RequestFails(records[opStoreName], call.op)
    /\ LET r == RequestResult(records[opStoreName], call.op)
       IN /\ opRequest' = [state |-> "success", value |-> r]
          /\ opPromise' = Resolve(opPromise, r)
    /\ opFinished' = TRUE
    /\ opTimeout' = ClearTimeout(opTimeout)
    /\ uncommitted' =
          IF call.op.kind \in WriteKinds
          THEN [pending |-> TRUE, store |-> opStoreName,
                view |-> RequestEffect(records[opStoreName], call.op)]
          ELSE uncommitted
    /\ UNCHANGED <<cfgVars, txVars, upVars, connVars, opStoreName, opPc, records,
                   call, clearing, clearPromise, cursor, cursorPromise>>

\* the engine executes the request and it fails: request.onerror of
\* iDBPromise up to its await; the operation's transaction is aborted
StoreRequestError ==
    /\ opRequest.state = "pending"
    /\ call.op.kind # "none"
    /\ ~uncommitted.pending
    /\ RequestFails(records[opStoreName], call.op)
    /\ opRequest' = [state |-> "error", value |-> "ConstraintError"]
    /\ opTimeout' = ClearTimeout(opTimeout)
    /\ IF events.onError
       THEN /\ calls' = Append(calls, [cb |-> "onError", error |-> "ConstraintError"])
            /\ opPc' = [opPc EXCEPT !.onerror = "await"]
            /\ UNCHANGED opPromise
       ELSE /\ opPromise' = Reject(opPromise, "ConstraintError")
            /\ opPc' = [opPc EXCEPT !.onerror = "done"]
            /\ UNCHANGED calls
    /\ UNCHANGED <<events, transactionTimeout, txVars, upVars, connVars, storeVars,
                   opStoreName, opFinished>>

\* the transaction of a write commits: its records are the store's
StoreTxCommits ==
    /\ uncommitted.pending
    /\ records' = [records EXCEPT ![uncommitted.store] = uncommitted.view]
    /\ uncommitted' = NoTransaction
    /\ UNCHANGED <<cfgVars, opVars, txVars, upVars, connVars, call, clearing,
                   clearPromise, cursor, cursorPromise>>

\* The loop of clearDatabase at position i: useStore(store.name).clear() up
\* to the await, or the end of the loop, where the promise resolves.
ClearTurn(i, runs) ==
    IF i > Len(cfgStores)
    THEN /\ clearing' = [pc |-> "returned", idx |-> i, runs |-> runs]
         /\ clearPromise' = [state |-> "fulfilled", value |-> "undefined"]
         /\ UNCHANGED <<opVars, call>>
    ELSE /\ clearing' = [pc |-> "running", idx |-> i, runs |-> runs]
         /\ clearPromise' = PendingPromise
         /\ IssueCall(cfgStores[i].name, ClearOp, call.n)

\* the caller, awaiting nothing, calls clearDatabase()
ClearDatabase ==
    /\ ~InFlight
    /\ clearing.pc # "running"
    /\ clearing.runs < MaxClears
    \* runs: this call and the calls before it that resolved, in succession
    /\ ClearTurn(1, IF clearing.pc = "returned" THEN clearing.runs + 1 ELSE 1)
    /\ UNCHANGED <<cfgVars, txVars, upVars, connVars, records, uncommitted, cursor,
                   cursorPromise>>

\* the awaited clear() has settled: the loop goes on, or clearDatabase
\* throws at its await and its promise rejects
ClearDatabaseResumes ==
    /\ clearing.pc = "running"
    /\ opPromise.state # "pending"
    /\ IF opPromise.state = "rejected"
       THEN /\ clearing' = [clearing EXCEPT !.pc = "threw"]
            /\ clearPromise' = [state |-> "rejected", value |-> opPromise.value]
            /\ UNCHANGED <<opVars, call>>
       ELSE ClearTurn(clearing.idx + 1, clearing.runs)
    /\ UNCHANGED <<cfgVars, txVars, upVars, connVars, records, uncommitted, cursor,
                   cursorPromise>>

StoreNext ==
    \/ \E s \in CalledStores, op \in StoreOps : StoreCall(s, op)
    \/ StoreRequestSuccess
    \/ StoreRequestError
    \/ OpErrorCallbackReturns
    \/ OpErrorCallbackThrows
    \/ StoreTxCommits
    \/ ClearDatabase
    \/ ClearDatabaseResumes

\* ------------------------------------------------------------------------
\* One useStore operation with its timer, its transaction and the records
\* of its store, next to a coordinator transaction that is under way
\* (index.ts 284-307, 336-412)
\* ------------------------------------------------------------------------

\* an opened instance with some records, on which transaction() has just
\* been called and no useStore operation yet
AbandonInit ==
    /\ TxInit
    /\ cfgStores = <<[name |-> 1, index |-> <<>>, bad |-> FALSE],
                     [name |-> 2, index |-> <<>>, bad |-> FALSE]>>
    /\ cfgMigrations = [isArray |-> FALSE, list |-> <<>>]
    /\ db = [stores |-> StoreNames, indexes |-> EmptyStructure.indexes]
    /\ oldVersion = 0
    /\ newVersion = 1
    /\ disk = [structure |-> db, version |-> newVersion]
    /\ disk0 = [structure |-> EmptyStructure, version |-> 0]
    /\ upTx = "committed"
    /\ upPc = "returned"
    /\ migIdx = 0
    /\ upTrace = <<>>
    /\ openPromise = [state |-> "fulfilled", value |-> "indexedDBInstance"]
    /\ opened = TRUE
    /\ openError = [pc |-> "idle", error |-> "none"]
    /\ records \in [StoreNames -> {EmptyStore, [EmptyStore EXCEPT !["k1"] = "a"]}]
    /\ uncommitted = NoTransaction
    /\ call = [op |-> NoOp, before |-> EmptyStore, n |-> 0]
    /\ clearing = [pc |-> "idle", idx |-> 0, runs |-> 0]
    /\ clearPromise = PendingPromise

\* the caller's one call of an operation of useStore(s)
FirstCall(s, op) ==
    /\ call.n = 0
    /\ IssueCall(s, op, 1)
    /\ UNCHANGED <<cfgVars, txVars, upVars, connVars, records, uncommitted, clearing,
                   clearPromise, cursor, cursorPromise>>

AbandonNext ==
    \/ \E s \in StoreNames, op \in StoreOps : FirstCall(s, op)
    \/ OpTimerFires
    \/ OpTimeoutCallbackReturns
    \/ OpTimeoutCallbackThrows
    \/ StoreRequestSuccess
    \/ StoreRequestError
    \/ OpErrorCallbackReturns
    \/ OpErrorCallbackThrows
    \/ StoreTxCommits

\* ------------------------------------------------------------------------
\* useStore operations on an instance whose connection gets closed: by its
\* db.onversionchange when a newer open attempt arrives (index.ts 275-281),
\* by deleteDatabase (index.ts 488) or by the caller (instance.db.close())
\* ------------------------------------------------------------------------

\* the calls made in this part: two writes, two reads and two removals
CloseOps ==
    {[kind |-> "add", key |-> "k1", name |-> "a"],
     [kind |-> "put", key |-> "k1", name |-> "b"],
     [kind |-> "get", key |-> "k1", name |-> "-"],
     [kind |-> "count", key |-> "-", name |-> "-"],
     [kind |-> "delete", key |-> "k1", name |-> "-"],
     [kind |-> "clear", key |-> "-", name |-> "-"]}

\* an opened instance holding records, and a newer open attempt at a higher
\* version that has not started its upgrade
CloseInit ==
    /\ ConnInit
    /\ ~events.onBlocked
    /\ cfgMigrations.list = <<>>
    /\ newVersion = oldVersion + 1
    /\ db.stores = StoreNames
    /\ records \in {r \in [StoreNames -> {EmptyStore, [EmptyStore EXCEPT !["k1"] = "a"]}] :
                      r[2] = EmptyStore}
    /\ uncommitted = NoTransaction
    /\ call = [op |-> NoOp, before |-> EmptyStore, n |-> 0]
    /\ clearing = [pc |-> "idle", idx |-> 0, runs |-> 0]
    /\ clearPromise = PendingPromise

CloseNext ==
    \/ VersionChange
    \/ VersionChangeCallbackReturns
    \/ VersionChangeCallbackRejects
    \/ HolderCloses
    \/ \E s \in CalledStores, op \in CloseOps : StoreCall(s, op)
    \/ StoreRequestSuccess
    \/ StoreRequestError
    \/ OpErrorCallbackReturns
    \/ OpErrorCallbackThrows
    \/ StoreTxCommits

\* ------------------------------------------------------------------------
\* openCursor / openKeyCursor: the cursor adapter iDBCursorPromise
\* (index.ts 309-335, 372-396)
\* ------------------------------------------------------------------------

\* what a caller's transform gives for a cursor position: JavaScript values,
\* written as their literals
TransformResults == {"{id,name}", "1", "0", "''", "undefined"}

\* a transform either returns a value or throws
TransformOutcomes == TransformResults \cup {"throws"}

\* the values ToBoolean takes to false
Falsy == {"undefined", "null", "false", "0", "NaN", "''"}

\* a transform result that is pushed only when it is defined
TruthyWhenDefined(v) == v # "undefined"

\* if (result)
Truthy(v) == v \notin Falsy

\* options.direction of the cursor
Directions == {"next", "prev"}

\* options.query of the cursor: none, or one key
Queries == {"undefined"} \cup Keys

Reverse(seq) == [i \in DOMAIN seq |-> seq[Len(seq) + 1 - i]]

\* the positions store.openCursor(query, direction) goes through on the
\* records `view`: the matching keys in key order, or in the reverse order
Traversal(view, query, direction) ==
    LET matching == SelectSeq(KeysOf(view),
                              LAMBDA k : query = "undefined" \/ k = query)
    IN IF direction = "prev" THEN Reverse(matching) ELSE matching

\* an opened instance whose store holds some records; the caller has called
\* openCursor or openKeyCursor with some options and some transform, and the
\* engine's request is pending
CursorInit ==
    /\ events \in {[onError |-> b, onTransactionTimeout |-> FALSE] : b \in BOOLEAN}
    /\ transactionTimeout = DefaultTimeout
    /\ calls = <<>>
    /\ \E view \in [Keys -> Names \cup {"undefined"}] :
          /\ records = [s \in StoreNames |-> IF s = 1 THEN view ELSE EmptyStore]
          /\ \E kind \in {"openCursor", "openKeyCursor"}, query \in Queries,
                direction \in Directions, transform \in [Keys -> TransformOutcomes] :
                cursor = [kind |-> kind,
                          positions |-> Traversal(view, query, direction),
                          transform |-> transform, at |-> 0, data |-> <<>>,
                          invoked |-> <<>>, advanced |-> 0, pc |-> "waiting"]
    /\ cursorPromise = PendingPromise
    /\ uncommitted = NoTransaction
    /\ call = [op |-> NoOp, before |-> EmptyStore, n |-> 0]
    /\ clearing = [pc |-> "idle", idx |-> 0, runs |-> 0]
    /\ clearPromise = PendingPromise

\* request.onsuccess with a cursor: the engine has reached the next position
\* (the first one, or the one cursor.continue() asked for); the transform is
\* called with the cursor, its result is pushed if truthy, the cursor is
\* advanced. A transform that throws ends the handler before continue().
CursorRequestSuccess ==
    /\ cursor.pc = "waiting"
    /\ cursor.advanced = cursor.at
    /\ cursor.at < Len(cursor.positions)
    /\ LET key == cursor.positions[cursor.at + 1]
           result == cursor.transform[key]
       IN cursor' =
            IF result = "throws"
            THEN [cursor EXCEPT !.at = @ + 1, !.invoked = Append(@, key),
                                !.pc = "threw"]
            ELSE [cursor EXCEPT !.at = @ + 1, !.invoked = Append(@, key),
                                !.data = IF Truthy(result) THEN Append(@, result)
                                         ELSE @,
                                !.advanced = @ + 1]
    /\ UNCHANGED <<cfgVars, opVars, txVars, upVars, connVars, records, uncommitted,
                   call, clearing, clearPromise, cursorPromise>>

\* request.onsuccess without a cursor: the traversal is exhausted,
\* resolve(data)
CursorExhausted ==
    /\ cursor.pc = "waiting"
    /\ cursor.advanced = cursor.at
    /\ cursor.at = Len(cursor.positions)
    /\ cursor' = [cursor EXCEPT !.pc = "done"]
    /\ cursorPromise' = Resolve(cursorPromise, cursor.data)
    /\ UNCHANGED <<cfgVars, opVars, txVars, upVars, connVars, records, uncommitted,
                   call, clearing, clearPromise>>

\* request.onerror up to its await: the engine fails the request while the
\* cursor is being opened or advanced
CursorRequestError(e) ==
    /\ cursor.pc = "waiting"
    /\ cursor.advanced = cursor.at
    /\ IF events.onError
       THEN /\ calls' = Append(calls, [cb |-> "onError", error |-> e])
            /\ cursor' = [cursor EXCEPT !.pc = "await"]
            /\ UNCHANGED cursorPromise
       ELSE /\ cursorPromise' = Reject(cursorPromise, e)
            /\ cursor' = [cursor EXCEPT !.pc = "done"]
            /\ UNCHANGED calls
    /\ UNCHANGED <<events, transactionTimeout, opVars, txVars, upVars, connVars,
                   records, uncommitted, call, clearing, clearPromise>>

\* onError's promise fulfils: reject(request.error)
CursorErrorCallbackReturns ==
    /\ cursor.pc = "await"
    /\ cursor' = [cursor EXCEPT !.pc = "done"]
    /\ cursorPromise' = Reject(cursorPromise, calls[Len(calls)].error)
    /\ UNCHANGED <<cfgVars, opVars, txVars, upVars, connVars, records, uncommitted,
                   call, clearing, clearPromise>>

\* onError's promise rejects: request.onerror throws at its await
CursorErrorCallbackRejects ==
    /\ cursor.pc = "await"
    /\ cursor' = [cursor EXCEPT !.pc = "threw"]
    /\ UNCHANGED <<cfgVars, opVars, txVars, upVars, connVars, records, uncommitted,
                   call, clearing, clearPromise, cursorPromise>>

CursorNext ==
    \/ CursorRequestSuccess
    \/ CursorExhausted
    \/ \E e \in RequestErrors : CursorRequestError(e)
    \/ CursorErrorCallbackReturns
    \/ CursorErrorCallbackRejects

\* ------------------------------------------------------------------------
\* Specifications: one per part of the program; the variables of the other
\* parts stay as they are initially
\* ------------------------------------------------------------------------

OpIdle ==
    /\ opStoreName = 1
    /\ opRequest = [state |-> "none", value |-> "none"]
    /\ opFinished = FALSE
    /\ opTimeout = "cleared"
    /\ opPromise = PendingPromise
    /\ opPc = [timer |-> "idle", onerror |-> "idle"]

TxIdle ==
    /\ txStoreNames = <<>>
    /\ callerPrevents = FALSE
    /\ durable = [k \in Keys |-> "undefined"]
    /\ durable0 = durable
    /\ txState = "committed"
    /\ txError = "null"
    /\ txIssued = <<>>
    /\ txNext = 1
    /\ txWork = durable
    /\ txAbortEvent = "none"
    /\ txRefused = TRUE
    /\ txFinished = TRUE
    /\ txTimeout = "cleared"
    /\ done = PendingPromise
    /\ txPc = [timer |-> "idle", awaitingOnError |-> 0]

UpIdle ==
    /\ cfgStores = <<>>
    /\ cfgMigrations = [isArray |-> FALSE, list |-> <<>>]
    /\ oldVersion = 0
    /\ newVersion = 1
    /\ disk = [structure |-> EmptyStructure, version |-> 0]
    /\ disk0 = disk
    /\ db = EmptyStructure
    /\ upTx = "committed"
    /\ upPc = "returned"
    /\ migIdx = 0
    /\ upTrace = <<>>
    /\ openPromise = PendingPromise
    /\ opened = TRUE
    /\ openError = [pc |-> "idle", error |-> "none"]

\* no other instance holds a connection, no open attempt was blocked
ConnIdle ==
    /\ holder = [conn |-> "closed", onVersionChange |-> FALSE, pc |-> "idle"]
    /\ blocked = [pc |-> "idle", error |-> "none"]

\* the instance holds its connection, no newer open attempt is under way
ConnHeld ==
    /\ holder = [conn |-> "open", onVersionChange |-> FALSE, pc |-> "idle"]
    /\ blocked = [pc |-> "idle", error |-> "none"]

\* no operation was called on the instance, no cursor is open
StoreIdle ==
    /\ records = [s \in StoreNames |-> EmptyStore]
    /\ uncommitted = NoTransaction
    /\ call = [op |-> NoOp, before |-> EmptyStore, n |-> 0]
    /\ clearing = [pc |-> "idle", idx |-> 0, runs |-> 0]
    /\ clearPromise = PendingPromise

CursorIdle ==
    /\ cursor = [kind |-> "openCursor", positions |-> <<>>,
                 transform |-> [k \in Keys |-> "undefined"], at |-> 0,
                 data |-> <<>>, invoked |-> <<>>, advanced |-> 0, pc |-> "idle"]
    /\ cursorPromise = PendingPromise

CfgIdle ==
    /\ events = [onError |-> FALSE, onTransactionTimeout |-> FALSE]
    /\ transactionTimeout = DefaultTimeout
    /\ calls = <<>>

\* one useStore operation, no transaction and no upgrade under way
InitOp == OpInit /\ TxIdle /\ UpIdle /\ ConnIdle /\ StoreIdle /\ CursorIdle

\* one coordinator transaction, no useStore operation and no upgrade under way
InitTx == TxInit /\ OpIdle /\ UpIdle /\ ConnIdle /\ StoreIdle /\ CursorIdle

\* one open attempt, before any operation or transaction exists
InitUpgrade ==
    UpInit /\ CfgIdle /\ OpIdle /\ TxIdle /\ ConnIdle /\ StoreIdle /\ CursorIdle

\* one open attempt that upgrades with the Schema Synchronizer
InitSync ==
    SyncInit /\ CfgIdle /\ OpIdle /\ TxIdle /\ ConnIdle /\ StoreIdle /\ CursorIdle

\* one open attempt at a higher version while an earlier instance is open
InitConn == ConnInit /\ OpIdle /\ TxIdle /\ StoreIdle /\ CursorIdle

\* an opened instance on which the caller makes one awaited call after the other
InitStore == StoreInit /\ OpIdle /\ TxIdle /\ ConnHeld /\ CursorIdle

\* one openCursor / openKeyCursor call on an opened instance
InitCursor == CursorInit /\ OpIdle /\ TxIdle /\ UpIdle /\ ConnHeld

\* one useStore operation with its store, beside a coordinator transaction
InitAbandon == AbandonInit /\ OpIdle /\ ConnHeld /\ CursorIdle

\* an instance whose connection may get closed between the caller's calls
InitClose == CloseInit /\ OpIdle /\ TxIdle /\ CursorIdle

\* one useStore operation or one coordinator transaction
InitTimers == InitOp \/ InitTx

\* one useStore operation racing its timer
SpecOp == InitOp /\ [][OpNext]_vars

\* the same, where the timer fires unless it is cleared and every callback's
\* promise settles; the engine need not answer the request
SpecOpLive ==
    /\ InitOp
    /\ [][OpNext]_vars
    /\ WF_vars(OpTimerFires)
    /\ WF_vars(OpTimeoutCallbackReturns \/ OpTimeoutCallbackThrows)
    /\ WF_vars(OpErrorCallbackReturns \/ OpErrorCallbackThrows)

\* one coordinator transaction
SpecTx == InitTx /\ [][TxNext]_vars

\* one useStore operation whose timer may elapse before the engine answers
SpecAbandon == InitAbandon /\ [][AbandonNext]_vars

\* awaited useStore operations before and after the connection is closed
SpecClose == InitClose /\ [][CloseNext]_vars

\* either of the two, each with its timer
SpecTimers == InitTimers /\ [][OpNext \/ TxNext]_vars

\* one open attempt that upgrades the database
SpecUpgrade == InitUpgrade /\ [][UpNext]_vars

\* one open attempt whose upgrade is the Schema Synchronizer's
SpecSync == InitSync /\ [][SyncNext]_vars

\* one open attempt at a higher version against an open earlier instance
SpecConn == InitConn /\ [][ConnNext]_vars

\* awaited useStore operations and clearDatabase calls on an opened instance
SpecStore == InitStore /\ [][StoreNext]_vars

\* one cursor traversal through the cursor adapter
SpecCursor == InitCursor /\ [][CursorNext]_vars

\* the same, where the promise of every callback settles; the engine need
\* not deliver a further success or error signal, and nothing in openCursor,
\* openKeyCursor or iDBCursorPromise arms a timer
SpecCursorLive ==
    /\ InitCursor
    /\ [][CursorNext]_vars
    /\ WF_vars(CursorErrorCallbackReturns \/ CursorErrorCallbackRejects)

\* ------------------------------------------------------------------------
\* Properties of one useStore operation (SpecOp)
\* ------------------------------------------------------------------------

\* C1: for one useStore operation at most one of the three terminal paths
\* (resolve with the result; onError then reject; onTransactionTimeout then
\* reject) ever runs, in whatever order success, error and the timer fire.
C1_OneTerminalPath ==
    LET timeoutPath ==
            \/ \E i \in DOMAIN calls : calls[i].cb = "onTransactionTimeout"
            \/ opPromise = [state |-> "rejected", value |-> "Transaction timeout"]
        errorPath ==
            \/ \E i \in DOMAIN calls : calls[i].cb = "onError"
            \/ opPromise.state = "rejected" /\ opPromise.value \in RequestErrors
        resolvePath == opPromise.state = "fulfilled"
    IN Cardinality({b \in {<<1, timeoutPath>>, <<2, errorPath>>, <<3, resolvePath>>} :
                       b[2]}) <= 1

TimeoutCalls(storeNames) ==
    {i \in DOMAIN calls :
        calls[i] = [cb |-> "onTransactionTimeout", storeNames |-> storeNames,
                    timeout |-> transactionTimeout]}

\* C2: once the timer of a useStore operation has elapsed before the request
\* fired, onTransactionTimeout has been invoked exactly once with
\* [storeName] and the configured timeout, the promise never resolves with
\* the request's result, and it rejects with nothing but the timeout error.
C2_TimeoutWins ==
    opPc.timer \in {"await", "done", "threw"} =>
        /\ events.onTransactionTimeout =>
              Cardinality(TimeoutCalls(<<opStoreName>>)) = 1
        /\ opPromise.state # "fulfilled"
        /\ opPromise.state = "rejected" => opPromise.value = "Transaction timeout"

\* the positions in `calls` of the invocations of onError with error e
ErrorCalls(e) == {i \in DOMAIN calls : calls[i] = [cb |-> "onError", error |-> e]}

\* C15: when the request of a useStore operation fired its error signal
\* before the timer elapsed and request.onerror is over, onError (if
\* supplied) has been invoked exactly once with the request's error and the
\* promise is rejected with that error.
C15_ErrorRejects ==
    (opRequest.state = "error" /\ opPc.timer = "idle"
        /\ opPc.onerror \in {"done", "threw"}) =>
        /\ events.onError => Cardinality(ErrorCalls(opRequest.value)) = 1
        /\ opPromise = [state |-> "rejected", value |-> opRequest.value]

\* C16: the promise of a useStore operation eventually settles, also when
\* the engine never answers the request, given that the timer fires and
\* that the promises of onTransactionTimeout and onError settle.
C16_EventuallySettles == <>(opPromise.state # "pending")

\* ------------------------------------------------------------------------
\* Properties of one coordinator transaction (SpecTx)
\* ------------------------------------------------------------------------

\* the timer callback ran with `finished` false
TxTimerElapsed == txPc.timer \in {"threw", "await", "done"}

\* the timer callback ran with `finished` false on a transaction that was
\* still active, so that its abort() did not throw
TxTimerAborted == txPc.timer \in {"await", "done"}

C4_TimeoutRejectsDone ==
    TxTimerElapsed =>
        /\ done.state # "pending" =>
              (done.state = "rejected" /\ done.value = "Transaction timeout")
        /\ events.onTransactionTimeout =>
              Cardinality(TimeoutCalls(txStoreNames)) = 1

\* C5: `done` is fulfilled only when the transaction has committed, and then
\* the durable records are those obtained by applying every request issued
\* on the store handle, in issuance order, to the records the transaction
\* started from.
C5_DoneMeansCommitted ==
    done.state = "fulfilled" =>
        /\ txState = "committed"
        /\ durable = ApplyAll(durable0, txIssued)

C5_Witness ==
    /\ done.state = "fulfilled"
    /\ txIssued = <<[kind |-> "add", key |-> "k1"], [kind |-> "add", key |-> "k2"],
                    [kind |-> "delete", key |-> "k1"]>>
    /\ durable0 = [k \in Keys |-> "undefined"]
    /\ durable["k1"] = "undefined"
    /\ durable["k2"] = "v"

\* a request executed so far has failed
TxRequestFailed ==
    \E i \in 1..(txNext - 1) :
        OpFails(ApplyAll(durable0, SubSeq(txIssued, 1, i - 1)), txIssued[i])

\* C6: a transaction one of whose requests failed, or whose `done` is
\* rejected, never commits: none of its writes become durable.
C6_FailureMeansAborted ==
    (TxRequestFailed \/ done.state = "rejected") =>
        (txState # "committed" /\ durable = durable0)

\* ------------------------------------------------------------------------
\* Properties of one upgrading open attempt (SpecUpgrade)
\* ------------------------------------------------------------------------

\* the structure holds exactly the configured stores and indexes
Matches(structure, stores) ==
    /\ structure.stores = {stores[i].name : i \in DOMAIN stores}
    /\ \A i \in DOMAIN stores :
          structure.indexes[stores[i].name] = Range(stores[i].index)

StructuralOps == {"createObjectStore", "deleteObjectStore", "createIndex", "deleteIndex"}

Invoked ==
    LET starts == SelectSeq(upTrace, LAMBDA e : e.ev = "migration")
    IN [i \in DOMAIN starts |-> starts[i].version]

Count(seq, v) == Cardinality({i \in DOMAIN seq : seq[i] = v})

Due(v) == oldVersion < v /\ v <= newVersion

Ascending(seq) == \A i, j \in DOMAIN seq : i < j => seq[i] <= seq[j]

\* every migration was started only after all those started before it had
\* fulfilled their promises
Sequential ==
    \A k \in DOMAIN upTrace :
        upTrace[k].ev = "migration" =>
            Cardinality({i \in 1..(k - 1) : upTrace[i].ev = "migration"})
              = Cardinality({i \in 1..(k - 1) : upTrace[i].ev = "fulfilled"})

\* the loop over the migrations is over
MigrationsOver == upPc \in {"awaitUpgradeEnd", "returned", "threw"}

\* C8 as stated: when the migration loop is over, the migrations invoked
\* are exactly those with oldVersion < version <= newVersion, in ascending
\* order, each started after the previous one had resolved.
C8_InvokedExactlyDue ==
    (cfgMigrations.isArray /\ MigrationsOver) =>
        /\ Ascending(Invoked)
        /\ Sequential
        /\ \A v \in Versions :
              Count(Invoked, v) = IF Due(v) THEN Count(cfgMigrations.list, v) ELSE 0

\* C8, amended: the migrations invoked are migrations with
\* oldVersion < version <= newVersion, in ascending version order and
\* strictly sequentially, up to and including the first one whose promise
\* rejects; when none rejects, exactly all of them are invoked.
C8_InvokedDuePrefix ==
    cfgMigrations.isArray =>
        /\ Ascending(Invoked)
        /\ Sequential
        /\ \A v \in Versions :
              /\ Count(Invoked, v) <= (IF Due(v) THEN Count(cfgMigrations.list, v) ELSE 0)
              /\ (Due(v) /\ Count(Invoked, v) < Count(cfgMigrations.list, v)) =>
                    /\ \A i \in DOMAIN Invoked : Invoked[i] <= v
                    /\ upPc \notin {"awaitUpgradeEnd", "returned"}

C8_Witness ==
    /\ cfgMigrations.isArray
    /\ upPc = "returned"
    /\ Len(Invoked) = 2
    /\ Invoked[1] < Invoked[2]

RECURSIVE Replay(_, _)
\* the structure obtained from st by the structural changes that the
\* migrations issued in trace tr
Replay(st, tr) ==
    IF tr = <<>> THEN st
    ELSE LET e == Head(tr)
             st1 == IF e.by # "migration" THEN st
                    ELSE IF e.ev = "createObjectStore"
                    THEN [st EXCEPT !.stores = @ \cup {e.store}]
                    ELSE IF e.ev = "deleteObjectStore"
                    THEN [st EXCEPT !.stores = @ \ {e.store}, !.indexes[e.store] = {}]
                    ELSE st
         IN Replay(st1, Tail(tr))

\* C9: in an upgrade with a non-empty config.migrations the library issues
\* no createObjectStore, deleteObjectStore, createIndex or deleteIndex: the
\* structure differs from the one before the upgrade only by what the
\* migrations did.
C9_MigrationsOnly ==
    (cfgMigrations.isArray /\ cfgMigrations.list # <<>>) =>
        /\ \A i \in DOMAIN upTrace :
              upTrace[i].ev \in StructuralOps => upTrace[i].by = "migration"
        /\ db = Replay(disk0.structure, upTrace)

\* C24: the Schema Synchronizer runs in an upgrade exactly when
\* config.migrations is absent or empty: then, once the reconciliation is
\* over, the database holds exactly the configured stores and indexes; with
\* a non-empty list the library issues no structural change.
C24_SynchronizerIffNoMigrations ==
    upPc \in {"awaitUpgradeEnd", "returned"} =>
        IF cfgMigrations.list = <<>>
        THEN Matches(db, cfgStores)
        ELSE \A i \in DOMAIN upTrace :
                upTrace[i].ev \in StructuralOps => upTrace[i].by = "migration"

C9_Witness ==
    /\ cfgMigrations.isArray
    /\ cfgMigrations.list # <<>>
    /\ upPc = "returned"
    /\ openPromise.state = "fulfilled"
    /\ cfgStores # <<>>
    /\ ~Matches(disk0.structure, cfgStores)
    /\ disk.structure # disk0.structure

\* C10: when a migration's promise rejected or a structural change of the
\* Synchronizer threw, the database keeps the structure and the version it
\* had before the upgrade and openIndexedDB does not resolve.
C10_FailedUpgradeRollsBack ==
    upPc = "threw" => (disk = disk0 /\ openPromise.state # "fulfilled")

\* the positions in upTrace of the events named ev
TracePositions(ev) == {i \in DOMAIN upTrace : upTrace[i].ev = ev}

\* C20: in every upgrade onUpgradeStart is invoked first, before any
\* migration or structural change; onUpgradeEnd is invoked at most once,
\* after every invoked migration has fulfilled its promise and after every
\* structural change; and when the handler has run to its end each of the
\* two has been invoked exactly once.
C20_UpgradeCallbacksBracket ==
    /\ upPc # "opening" => TracePositions("onUpgradeStart") = {1}
    /\ \A i \in TracePositions("onUpgradeEnd") :
          /\ i = Len(upTrace)
          /\ Cardinality(TracePositions("migration"))
               = Cardinality(TracePositions("fulfilled"))
    /\ upPc = "returned" => Cardinality(TracePositions("onUpgradeEnd")) = 1

C20_Witness ==
    /\ upPc = "returned"
    /\ Cardinality(TracePositions("migration")) = 2
    /\ TracePositions("createObjectStore") # {}
    /\ TracePositions("onUpgradeEnd") = {Len(upTrace)}

\* ------------------------------------------------------------------------
\* Properties of an open attempt against an open earlier instance (SpecConn)
\* ------------------------------------------------------------------------

\* the positions in `calls` of the invocations of callback cb with the old
\* and the new version
VersionCalls(cb) ==
    {i \in DOMAIN calls :
        calls[i] = [cb |-> cb, oldVersion |-> oldVersion, newVersion |-> newVersion]}

\* C11: when a version-change notification has been delivered to the
\* holder's connection and its handler is over, whether onVersionChange's
\* promise fulfilled or rejected, onVersionChange has been invoked once with
\* the old and the new version and the connection is closed.
C11_VersionChangeCloses ==
    holder.pc \in {"done", "threw"} =>
        /\ holder.onVersionChange => Cardinality(VersionCalls("onVersionChange")) = 1
        /\ holder.conn = "closed"

\* C12: the open attempt at a higher version never receives the blocked
\* signal when the only other connection is one opened by openIndexedDB,
\* however the holder's version-change handler and its onVersionChange
\* interleave with the engine's look at the connection.
C12_NeverBlocked == blocked.pc = "idle"

\* C13: when the onblocked handler has run to its end, onBlocked (if
\* supplied) has been invoked once with the old and the new version, onError
\* (if supplied) has been invoked once, after onBlocked, with the resulting
\* error, and the open promise is rejected with that same error.
C13_BlockedRejects ==
    blocked.pc = "done" =>
        /\ events.onBlocked => Cardinality(VersionCalls("onBlocked")) = 1
        /\ events.onError =>
              /\ Cardinality(ErrorCalls(blocked.error)) = 1
              /\ \A i \in VersionCalls("onBlocked") :
                    \A j \in ErrorCalls(blocked.error) : i < j
        /\ openPromise = [state |-> "rejected", value |-> blocked.error]

\* C14: an open attempt that has received the blocked signal never enters
\* upgrading or opened: its upgrade handler never runs (no onUpgradeStart,
\* migration, structural change or onUpgradeEnd) and it never holds an open
\* connection, also after the holder's connection has closed.
C14_BlockedIsTerminal ==
    blocked.pc # "idle" => (upPc = "opening" /\ upTrace = <<>> /\ ~opened)

\* C23: for one coordinator transaction at most one lifecycle callback is
\* invoked in total: onError at most once, and never together with
\* onTransactionTimeout.
C23_OneLifecycleCallback ==
    Cardinality({i \in DOMAIN calls :
                   calls[i].cb \in {"onError", "onTransactionTimeout"}}) <= 1

\* ------------------------------------------------------------------------
\* Properties of the Schema Synchronizer (SpecSync)
\* ------------------------------------------------------------------------

\* the structural changes the library has issued so far, in order
LibraryOps ==
    SelectSeq(upTrace, LAMBDA e : e.by = "library" /\ e.ev \in StructuralOps)

\* the phase of a structural change in the documented list
Phase(ev) ==
    CASE ev = "deleteObjectStore" -> 1
      [] ev = "createObjectStore" -> 2
      [] ev = "deleteIndex" -> 3
      [] ev = "createIndex" -> 4

\* the position of the store named s in config.stores
ConfigPosition(s) == CHOOSE k \in DOMAIN cfgStores : cfgStores[k].name = s

ConfiguredIndexes(s) ==
    UNION {Range(cfgStores[k].index) : k \in {i \in DOMAIN cfgStores : cfgStores[i].name = s}}

\* the stores that exist before the upgrade and are still configured, and
\* the indexes of theirs that exist before and are still configured
KeptStores ==
    disk0.structure.stores \cap {cfgStores[i].name : i \in DOMAIN cfgStores}
KeptIndexes(s) == disk0.structure.indexes[s] \cap ConfiguredIndexes(s)

\* C31: the Synchronizer compares by name only.  A store that exists before
\* the upgrade and is still configured is never deleted or created again,
\* and neither is an index of it that exists before and is still
\* configured: the engine changes the records and the options of a store,
\* and the key path of an index, only by deleting it, so they stay as they
\* were on disk whatever the configured options and key paths are.
C31_ConfiguredKept ==
    /\ \A i \in DOMAIN LibraryOps :
          LET e == LibraryOps[i]
          IN IF e.ev \in {"deleteObjectStore", "createObjectStore"}
             THEN e.store \notin KeptStores
             ELSE ~(e.store \in KeptStores /\ e.index \in KeptIndexes(e.store))
    /\ \A s \in KeptStores :
          s \in db.stores /\ KeptIndexes(s) \subseteq db.indexes[s]

C31_Witness ==
    /\ upPc = "returned"
    /\ openPromise.state = "fulfilled"
    /\ disk0.structure = [stores |-> {1, 2}, indexes |-> <<{1}, {1, 2}>>]
    /\ cfgStores = <<[name |-> 2, index |-> <<1>>, bad |-> TRUE]>>
    /\ [i \in DOMAIN LibraryOps |-> LibraryOps[i].ev]
          = <<"deleteObjectStore", "deleteIndex">>
    /\ disk.structure = [stores |-> {2}, indexes |-> <<{}, {1}>>]

\* ------------------------------------------------------------------------
\* Properties of the timers of iDBPromise and transaction() (SpecTimers)
\* ------------------------------------------------------------------------

\* the invocations of onTransactionTimeout so far
AllTimeoutCalls == {i \in DOMAIN calls : calls[i].cb = "onTransactionTimeout"}

\* the request of the operation has fired success or error, or the
\* transaction has fired complete, error or abort, and the timer callback
\* had not started before
OpCompletedFirst == opRequest.state \in {"success", "error"} /\ opPc.timer = "idle"
TxCompletedFirst ==
    /\ txStoreNames # <<>>
    /\ txFinished
    /\ txPc.timer = "idle"

\* C22: once the request of a useStore operation has fired success or
\* error, or a coordinator transaction has fired complete, error or abort,
\* before the timer elapsed, no later step invokes onTransactionTimeout,
\* calls abort() from the timer or rejects the promise with the timeout
\* error: the timer callback does not run, or stops at its guard.
C22_TimerQuietAfterCompletion ==
    [][/\ OpCompletedFirst =>
            /\ opPc'.timer \in {"idle", "skipped"}
            /\ AllTimeoutCalls' = AllTimeoutCalls
            /\ opPromise'.value = "Transaction timeout" =>
                  opPromise.value = "Transaction timeout"
       /\ TxCompletedFirst =>
            /\ txPc'.timer \in {"idle", "skipped"}
            /\ AllTimeoutCalls' = AllTimeoutCalls
            /\ done'.value = "Transaction timeout" =>
                  done.value = "Transaction timeout"]_vars

C22_Witness ==
    /\ opRequest.state = "error"
    /\ opTimeout = "cleared"
    /\ opPc = [timer |-> "idle", onerror |-> "done"]
    /\ opPromise.state = "rejected"
    /\ events.onTransactionTimeout
    /\ \E i \in DOMAIN calls : calls[i].cb = "onError"

C27_ClosedConnectionRejects ==
    [][(holder.conn = "closed" /\ call'.n # call.n) =>
          /\ opPromise'.state = "rejected"
          /\ opRequest'.state = "none"
          /\ UNCHANGED <<records, uncommitted>>]_vars

C27_Witness ==
    /\ holder = [conn |-> "closed", onVersionChange |-> TRUE, pc |-> "done"]
    /\ opPromise = [state |-> "rejected", value |-> "InvalidStateError"]
    /\ opRequest.state = "none"
    /\ call.op.kind = "clear"
    /\ call.n = 2
    /\ records[1]["k1"] = "b"

\* C28: every rejection of the promise of a useStore operation is preceded
\* by an invocation of onError (where one is supplied) with the rejection's
\* error, also when the failure is raised as the operation is issued.
C28_RejectionsReported ==
    (events.onError /\ call.n > 0 /\ opPromise.state = "rejected") =>
        \E i \in DOMAIN calls :
            calls[i].cb = "onError" /\ calls[i].error = opPromise.value

\* C21: when the engine signals that the open attempt failed (and the
\* attempt was not reported as blocked before), onError is invoked once with
\* the request's error, the promise of openIndexedDB is rejected with that
\* error once the handler is over, no instance is delivered and no upgrade
\* is started.
C21_OpenErrorRejects ==
    (openError.pc # "idle" /\ blocked.pc = "idle") =>
        /\ events.onError =>
              Cardinality({i \in DOMAIN calls :
                             calls[i] = [cb |-> "onError",
                                         error |-> openError.error]}) = 1
        /\ openError.pc \in {"done", "threw"} =>
              openPromise = [state |-> "rejected", value |-> openError.error]
        /\ ~opened /\ upTrace = <<>>

\* ------------------------------------------------------------------------
\* Properties of the awaited calls on an opened instance (SpecStore)
\* ------------------------------------------------------------------------

\* the reference map: the set of the records a store view holds
Contents(view) ==
    {[id |-> k, name |-> view[k]] : k \in {j \in Keys : view[j] # "undefined"}}

\* the reference map after op
RefApply(ref, op) ==
    CASE op.kind = "add" ->
            IF \E r \in ref : r.id = op.key THEN ref
            ELSE ref \cup {[id |-> op.key, name |-> op.name]}
      [] op.kind = "put" ->
            {r \in ref : r.id # op.key} \cup {[id |-> op.key, name |-> op.name]}
      [] op.kind = "delete" -> {r \in ref : r.id # op.key}
      [] op.kind = "clear" -> {}
      [] OTHER -> ref

\* whether the reference map refuses op: an add of a key it holds
RefRefuses(ref, op) == op.kind = "add" /\ \E r \in ref : r.id = op.key

\* whether value v is what op reports on the reference map
RefReports(ref, op, v) ==
    CASE op.kind \in {"add", "put"} -> v = op.key
      [] op.kind = "get" ->
            IF \E r \in ref : r.id = op.key
            THEN v \in ref /\ v.id = op.key
            ELSE v = NoRecord
      [] op.kind = "getKey" ->
            v = IF \E r \in ref : r.id = op.key THEN op.key ELSE "undefined"
      [] op.kind = "getAll" -> Len(v) = Cardinality(ref) /\ Range(v) = ref
      [] op.kind = "getAllKeys" ->
            Len(v) = Cardinality(ref) /\ Range(v) = {r.id : r \in ref}
      [] op.kind = "count" -> v = Cardinality(ref)
      [] OTHER -> v = "undefined"

Cleared(s) == KeysOf(Visible(s)) = <<>>

Transformed(positions, transform) ==
    [i \in DOMAIN positions |-> transform[positions[i]]]

\* C19: when the cursor of openCursor / openKeyCursor is exhausted, the
\* promise resolves with the transform's results over the positions in
\* traversal order without the falsy ones; the transform was invoked once
\* for each position, in that order, and the cursor was advanced after each
\* invocation.
C19_CursorCollects ==
    /\ cursorPromise.state = "fulfilled" =>
          /\ cursorPromise.value =
                SelectSeq(Transformed(cursor.positions, cursor.transform),
                          LAMBDA v : v \notin Falsy)
          /\ cursor.invoked = cursor.positions
          /\ cursor.advanced = Len(cursor.positions)
    /\ cursor.pc \in {"waiting", "done", "await"} =>
          cursor.advanced = Len(cursor.invoked)

C19_Witness ==
    /\ cursorPromise.state = "fulfilled"
    /\ cursorPromise.value = <<"{id,name}">>
    /\ cursor.positions = <<"k2", "k1">>
    /\ cursor.transform = [k \in Keys |-> IF k = "k1" THEN "{id,name}" ELSE "0"]
    /\ cursor.invoked = <<"k2", "k1">>
    /\ cursor.kind = "openCursor"
    /\ cursor.advanced = 2

\* C29: the promise of openCursor / openKeyCursor eventually settles, even
\* if the engine never delivers a further step, exhaustion or error signal.
C29_CursorEventuallySettles == <>(cursorPromise.state # "pending")

\* C30: in an open attempt that goes through an upgrade the promise of
\* openIndexedDB is fulfilled only after onUpgradeEnd has been invoked, and
\* never while the handler awaits onUpgradeStart, a migration or
\* onUpgradeEnd.
C30_ResolvesAfterUpgrade ==
    openPromise.state = "fulfilled" =>
        /\ upPc \notin {"awaitUpgradeStart", "awaitMigration", "awaitUpgradeEnd"}
        /\ TracePositions("onUpgradeEnd") # {}

====
